---- MODULE Spec2Model ----
(***************************************************************************)
(* agroManager backend: the token authority of auth.py (login, logout,     *)
(* verify_token over the process-wide BLACKLIST) and the request handlers  *)
(* that depend on it.                                                      *)
(*                                                                         *)
(* Time is counted in ticks; TicksPerSecond ticks make one second, so the  *)
(* sub-second part of datetime.utcnow() that the JWT exp claim drops is    *)
(* part of the model.                                                      *)
(***************************************************************************)
EXTENDS Integers, Sequences, FiniteSets, TLC

VARIABLES
    clock,      \* wall clock (datetime.utcnow()), in ticks
    BLACKLIST,  \* auth.py: BLACKLIST = set()
    loggedOut,  \* history: the tokens for which a logout request has completed
    threads,    \* the auth requests in progress on the threadpool, by thread
    usuarios,   \* table "usuarios", in insertion order (a row's id is its position)
    registered, \* history: the plaintext password each user row was created with
    sessions,   \* history: the tokens login has returned
    culturas,   \* table "culturas"
    producoes,  \* table "producao"
    estoque,    \* table "estoque"
    seq,        \* the serial id last given out by each of the three tables
    last        \* the request being answered and its response; Idle between requests

authVars == <<clock, BLACKLIST, loggedOut, threads>>
dataVars == <<culturas, producoes, estoque, seq>>
userVars == <<usuarios, registered, sessions>>
vars ==
    <<clock, BLACKLIST, loggedOut, threads, usuarios, registered, sessions, culturas,
      producoes, estoque, seq, last>>

----------------------------------------------------------------------------
(* Bounds                                                                  *)

TicksPerSecond == 2
MaxClock == 5
MaxThreads == 2

(* settings.ACCESS_TOKEN_EXPIRE_MINUTES, scaled: the lifetime in seconds.  *)
ACCESS_TOKEN_EXPIRE == 1

----------------------------------------------------------------------------
(* Tokens.  A bearer string is modelled by what jwt.decode can tell of it: *)
(* whether it has the three-segment form, whether its signature verifies   *)
(* under settings.SECRET_KEY / settings.ALGORITHM, and its claims.         *)
(* A claim that is absent is <<>>, a present one is <<value>>.  exp_json   *)
(* is the JSON type of the exp claim.  jwt.encode is deterministic, so     *)
(* equal claims under the same key are the same string.                    *)

Emails == {"a@x", "b@x"}
UserIds == {1, 2}

Garbage ==
    [sig |-> "malformed", sub |-> <<>>, user_id |-> <<>>, exp_json |-> "absent", exp |-> 0]

NoToken ==
    [sig |-> "none", sub |-> <<>>, user_id |-> <<>>, exp_json |-> "absent", exp |-> 0]

MaxExp == (MaxClock \div TicksPerSecond) + ACCESS_TOKEN_EXPIRE

ExpClaims ==
    {[exp_json |-> "number", exp |-> e] : e \in 1..MaxExp}
        \cup {[exp_json |-> "absent", exp |-> 0], [exp_json |-> "null", exp |-> 0]}

jwt_sign(sig, sub, user_id, x) ==
    [sig |-> sig, sub |-> sub, user_id |-> user_id, exp_json |-> x.exp_json, exp |-> x.exp]

\* the identity claims of validly signed tokens: any email with any id, or
\* such claims with one of the two fields missing or falsy
IdentityClaims ==
    {<<<<e>>, <<i>>>> : e \in Emails, i \in UserIds}
        \cup {<<s, <<1>>>> : s \in {<<>>, <<"">>}}
        \cup {<<<<"a@x">>, u>> : u \in {<<>>, <<0>>}}

ValidTokens == {jwt_sign("valid", c[1], c[2], x) : c \in IdentityClaims, x \in ExpClaims}

\* signed with another secret, or altered after signing
ForgedTokens == {jwt_sign("forged", <<"a@x">>, <<1>>, x) : x \in ExpClaims}

Tokens == ValidTokens \cup ForgedTokens \cup {Garbage}

----------------------------------------------------------------------------
(* auth.py                                                                 *)

\* mutant: another digest than the one stored at registration
gerar_hash_md5(senha) == <<"md5", senha>>

\* hashlib.sha256(senha.encode()).hexdigest(): one digest per plaintext
gerar_hash(senha) == <<"sha256", senha>>

\* jwt.encode turns the datetime exp into whole seconds (timegm of its
\* utctimetuple), dropping the sub-second part
jwt_encode(to_encode) ==
    [sig |-> "valid", sub |-> <<to_encode.sub>>, user_id |-> <<to_encode.user_id>>,
     exp_json |-> "number", exp |-> to_encode.exp \div TicksPerSecond]

\* expires_delta: None, or a timedelta counted in ticks
None == <<>>

\* mutant: a timedelta of zero counts as a duration like any other
create_access_token_is_none(data, expires_delta, now) ==
    LET expire == now + (IF expires_delta # None THEN expires_delta[1]
                         ELSE ACCESS_TOKEN_EXPIRE * TicksPerSecond)
    IN  jwt_encode([sub |-> data.sub, user_id |-> data.user_id, exp |-> expire])

\* `expires_delta or timedelta(minutes=...)`: None and timedelta(0) are falsy
create_access_token(data, expires_delta, now) ==
    LET expire == now + (IF expires_delta # None /\ expires_delta[1] # 0 THEN expires_delta[1]
                         ELSE ACCESS_TOKEN_EXPIRE * TicksPerSecond)
    IN  jwt_encode([sub |-> data.sub, user_id |-> data.user_id, exp |-> expire])

\* the tokens create_access_token can have returned by the time `now`
Issued(now) ==
    {create_access_token([sub |-> e, user_id |-> i], None, t0) :
        e \in Emails, i \in UserIds, t0 \in 0..now}

\* mutant: a token is still accepted at the instant of its exp (exp < now)
jwt_decode_expiry_exclusive(token, now) ==
    IF token.sig # "valid" THEN [raises |-> "PyJWTError", payload |-> token]
    ELSE IF token.exp_json = "null" THEN [raises |-> "Exception", payload |-> token]
    ELSE IF token.exp_json = "number" /\ token.exp * TicksPerSecond < now
         THEN [raises |-> "ExpiredSignatureError", payload |-> token]
    ELSE [raises |-> "none", payload |-> token]

\* mutant: a token expires one tick before its exp
jwt_decode_expiry_early(token, now) ==
    IF token.sig # "valid" THEN [raises |-> "PyJWTError", payload |-> token]
    ELSE IF token.exp_json = "null" THEN [raises |-> "Exception", payload |-> token]
    ELSE IF token.exp_json = "number" /\ token.exp * TicksPerSecond <= now + 1
         THEN [raises |-> "ExpiredSignatureError", payload |-> token]
    ELSE [raises |-> "none", payload |-> token]

\* mutant: the exp claim is validated before the signature
jwt_decode_claims_first(token, now) ==
    IF token.sig = "malformed" THEN [raises |-> "PyJWTError", payload |-> token]
    ELSE IF token.exp_json = "number" /\ token.exp * TicksPerSecond <= now
         THEN [raises |-> "ExpiredSignatureError", payload |-> token]
    ELSE IF token.sig # "valid" THEN [raises |-> "PyJWTError", payload |-> token]
    ELSE IF token.exp_json = "null" THEN [raises |-> "Exception", payload |-> token]
    ELSE [raises |-> "none", payload |-> token]

\* jwt.decode(token, SECRET_KEY, algorithms=[ALGORITHM]): the segments are
\* parsed, then the signature is verified, then the claims are validated.
\* int(payload["exp"]) catches ValueError only: a null exp raises TypeError.
jwt_decode(token, now) ==
    IF token.sig = "malformed" THEN [raises |-> "PyJWTError", payload |-> token]
    ELSE IF token.sig # "valid" THEN [raises |-> "PyJWTError", payload |-> token]
    ELSE IF token.exp_json = "null" THEN [raises |-> "Exception", payload |-> token]
    ELSE IF token.exp_json = "number" /\ token.exp * TicksPerSecond <= now
         THEN [raises |-> "ExpiredSignatureError", payload |-> token]
    ELSE [raises |-> "none", payload |-> token]

\* Python truthiness of payload.get(claim): None, "" and 0 are falsy
truthy_str(claim) == claim # <<>> /\ claim # <<"">>
truthy_int(claim) == claim # <<>> /\ claim # <<0>>

NoUser == [email |-> <<>>, user_id |-> <<>>]

Unauthorized(detail) == [status |-> 401, detail |-> detail, user |-> NoUser]

\* mutant: the token is decoded before the BLACKLIST is consulted
verify_token_decode_first(token, blacklist, now) ==
    LET d == jwt_decode(token, now) IN
    IF d.raises = "ExpiredSignatureError" THEN Unauthorized("Token expirado")
    ELSE IF d.raises = "PyJWTError" THEN Unauthorized("Token invalido")
    ELSE IF d.raises = "Exception"
         THEN [status |-> 500, detail |-> "Erro interno na autenticacao", user |-> NoUser]
    ELSE IF token \in blacklist THEN Unauthorized("Token invalido")
    ELSE IF ~truthy_str(d.payload.sub) \/ ~truthy_int(d.payload.user_id)
         THEN Unauthorized("Token invalido")
    ELSE [status |-> 200, detail |-> "",
          user |-> [email |-> d.payload.sub, user_id |-> d.payload.user_id]]

\* mutant: only a missing claim is rejected (payload.get(...) is None)
verify_token_is_none(token, blacklist, now) ==
    IF token \in blacklist THEN Unauthorized("Token invalido")
    ELSE LET d == jwt_decode(token, now) IN
         IF d.raises = "ExpiredSignatureError" THEN Unauthorized("Token expirado")
         ELSE IF d.raises = "PyJWTError" THEN Unauthorized("Token invalido")
         ELSE IF d.raises = "Exception"
              THEN [status |-> 500, detail |-> "Erro interno na autenticacao", user |-> NoUser]
         ELSE IF d.payload.sub = <<>> \/ d.payload.user_id = <<>>
              THEN Unauthorized("Token invalido")
         ELSE [status |-> 200, detail |-> "",
               user |-> [email |-> d.payload.sub, user_id |-> d.payload.user_id]]

verify_token(token, blacklist, now) ==
    IF token \in blacklist THEN Unauthorized("Token invalido")
    ELSE LET d == jwt_decode(token, now) IN
         IF d.raises = "ExpiredSignatureError" THEN Unauthorized("Token expirado")
         ELSE IF d.raises = "PyJWTError" THEN Unauthorized("Token invalido")
         ELSE IF d.raises = "Exception"
              THEN [status |-> 500, detail |-> "Erro interno na autenticacao", user |-> NoUser]
         ELSE IF ~truthy_str(d.payload.sub) \/ ~truthy_int(d.payload.user_id)
              THEN Unauthorized("Token invalido")
         ELSE [status |-> 200, detail |-> "",
               user |-> [email |-> d.payload.sub, user_id |-> d.payload.user_id]]

\* a response: the handler, the bearer token and the path id of the request,
\* the HTTP status and detail, the identity verify_token resolved, the rows
\* the handler's queries fetched and the rows of the response body
Resp(op, token, id, status, detail, user, read, body) ==
    [op |-> op, token |-> token, id |-> id, status |-> status, detail |-> detail,
     user |-> user, read |-> read, body |-> body]

Response(op, token, r) == Resp(op, token, 0, r.status, r.detail, r.user, {}, {})

Idle == Response("none", NoToken, [status |-> 0, detail |-> "", user |-> NoUser])

\* mutant: entries are pruned once their token has expired
Tick_prunes ==
    /\ last = Idle
    /\ clock < MaxClock
    /\ clock' = clock + 1
    /\ BLACKLIST' = {t \in BLACKLIST : clock + 1 < t.exp * TicksPerSecond}
    /\ UNCHANGED <<loggedOut, threads, last>>
    /\ UNCHANGED <<userVars, dataVars>>

\* time passes between requests
Tick ==
    /\ last = Idle
    /\ clock < MaxClock
    /\ clock' = clock + 1
    /\ UNCHANGED <<BLACKLIST, loggedOut, threads, last>>
    /\ UNCHANGED <<userVars, dataVars>>

\* the response has been sent; the next request can be taken
Reply ==
    /\ last # Idle
    /\ last' = Idle
    /\ UNCHANGED <<authVars, userVars, dataVars>>

\* mutant: logout answers success without recording the token
logout_forgets(token) ==
    /\ last = Idle
    /\ BLACKLIST' = BLACKLIST
    /\ loggedOut' = loggedOut \cup {token}
    /\ last' = Resp("logout", token, 0, 200, "Logout realizado com sucesso.", NoUser,
                    BLACKLIST \cap {token}, {})
    /\ UNCHANGED <<clock, threads, userVars, dataVars>>

\* mutant: a second logout of the same token takes the entry out again
logout_toggles(token) ==
    /\ last = Idle
    /\ BLACKLIST' = IF token \in BLACKLIST THEN BLACKLIST \ {token} ELSE BLACKLIST \cup {token}
    /\ loggedOut' = loggedOut \cup {token}
    /\ last' = Resp("logout", token, 0, 200, "Logout realizado com sucesso.", NoUser,
                    BLACKLIST \cap {token}, {})
    /\ UNCHANGED <<clock, threads, userVars, dataVars>>

\* mutant: logout accepts only a token that verify_token accepts
logout_verifies(token) ==
    /\ last = Idle
    /\ LET auth == verify_token(token, BLACKLIST, clock) IN
       IF auth.status # 200
       THEN /\ last' = Resp("logout", token, 0, auth.status, auth.detail, NoUser,
                            BLACKLIST \cap {token}, {})
            /\ UNCHANGED <<BLACKLIST, loggedOut>>
       ELSE /\ BLACKLIST' = BLACKLIST \cup {token}
            /\ loggedOut' = loggedOut \cup {token}
            /\ last' = Resp("logout", token, 0, 200, "Logout realizado com sucesso.", NoUser,
                            BLACKLIST \cap {token}, {})
    /\ UNCHANGED <<clock, threads, userVars, dataVars>>

\* POST /auth/logout (the response's read: the entry BLACKLIST.add found there)
logout(token) ==
    /\ last = Idle
    /\ BLACKLIST' = BLACKLIST \cup {token}
    /\ loggedOut' = loggedOut \cup {token}
    /\ last' = Resp("logout", token, 0, 200, "Logout realizado com sucesso.", NoUser,
                    BLACKLIST \cap {token}, {})
    /\ UNCHANGED <<clock, threads, userVars, dataVars>>

\* Depends(verify_token): the identity a protected request resolves to
VerifyRequest(token) ==
    /\ last = Idle
    /\ last' = Response("verify_token", token, verify_token(token, BLACKLIST, clock))
    /\ UNCHANGED <<authVars, userVars, dataVars>>

\* create_access_token({"sub": email, "user_id": id}) at the current time
IssueToken(email, id) ==
    /\ last = Idle
    /\ last' = Response("create_access_token",
                        create_access_token([sub |-> email, user_id |-> id], None, clock),
                        [status |-> 200, detail |-> "", user |-> NoUser])
    /\ UNCHANGED <<authVars, userVars, dataVars>>

\* create_access_token({"sub": email, "user_id": id}, expires_delta)
IssueTokenExpiring(email, id, expires_delta) ==
    /\ last = Idle
    /\ last' = Response("create_access_token",
                        create_access_token([sub |-> email, user_id |-> id], <<expires_delta>>,
                                            clock),
                        [status |-> 200, detail |-> "", user |-> NoUser])
    /\ UNCHANGED <<authVars, userVars, dataVars>>

----------------------------------------------------------------------------
(* auth.py with requests in parallel.  logout and verify_token are plain   *)
(* `def` callables, which FastAPI runs on a threadpool; the threads share  *)
(* the module's BLACKLIST.  One statement touches the set in each of them  *)
(* (BLACKLIST.add(token); token in BLACKLIST), and each is one step.       *)

Threads == 1..MaxThreads

NoResult == [status |-> 0, detail |-> "", user |-> NoUser]

\* a thread: the request it runs and where it is; after: a logout of the
\* request's token had returned when the request began; seen: what
\* `token in BLACKLIST` gave
Free ==
    [pc |-> "free", op |-> "none", token |-> NoToken, after |-> FALSE, seen |-> FALSE,
     result |-> NoResult]

\* a thread takes POST /auth/logout
logout_begin(th, token) ==
    /\ threads[th] = Free
    /\ threads' = [threads EXCEPT ![th] = [Free EXCEPT !.pc = "add", !.op = "logout",
                                                       !.token = token,
                                                       !.after = token \in loggedOut]]
    /\ UNCHANGED <<clock, BLACKLIST, loggedOut, userVars, dataVars, last>>

\* mutant: the entry is not in the set when logout returns
BLACKLIST_add_late(th) ==
    /\ threads[th].pc = "add"
    /\ threads' = [threads EXCEPT ![th].pc = "return"]
    /\ UNCHANGED <<clock, BLACKLIST, loggedOut, userVars, dataVars, last>>

\* BLACKLIST.add(token)
BLACKLIST_add(th) ==
    /\ threads[th].pc = "add"
    /\ BLACKLIST' = BLACKLIST \cup {threads[th].token}
    /\ threads' = [threads EXCEPT ![th].pc = "return"]
    /\ UNCHANGED <<clock, loggedOut, userVars, dataVars, last>>

\* return {"msg": "Logout realizado com sucesso."}
logout_return(th) ==
    /\ threads[th].op = "logout"
    /\ threads[th].pc = "return"
    /\ loggedOut' = loggedOut \cup {threads[th].token}
    /\ threads' = [threads EXCEPT ![th].pc = "done",
                                  ![th].result = [status |-> 200,
                                                  detail |-> "Logout realizado com sucesso.",
                                                  user |-> NoUser]]
    /\ UNCHANGED <<clock, BLACKLIST, userVars, dataVars, last>>

\* a thread takes a protected request: Depends(verify_token)
verify_begin(th, token) ==
    /\ threads[th] = Free
    /\ threads' = [threads EXCEPT ![th] = [Free EXCEPT !.pc = "contains",
                                                       !.op = "verify_token",
                                                       !.token = token,
                                                       !.after = token \in loggedOut]]
    /\ UNCHANGED <<clock, BLACKLIST, loggedOut, userVars, dataVars, last>>

\* if token in BLACKLIST
BLACKLIST_contains(th) ==
    /\ threads[th].pc = "contains"
    /\ threads' = [threads EXCEPT ![th].pc = "decode",
                                  ![th].seen = threads[th].token \in BLACKLIST]
    /\ UNCHANGED <<clock, BLACKLIST, loggedOut, userVars, dataVars, last>>

\* the raise of the blacklist branch, or jwt.decode and what follows it
verify_return(th) ==
    /\ threads[th].pc = "decode"
    /\ threads' = [threads EXCEPT
                      ![th].pc = "done",
                      ![th].result = verify_token(threads[th].token,
                                                  IF threads[th].seen THEN {threads[th].token}
                                                  ELSE {},
                                                  clock)]
    /\ UNCHANGED <<clock, BLACKLIST, loggedOut, userVars, dataVars, last>>

\* the response is sent and the thread goes back to the pool
thread_free(th) ==
    /\ threads[th].pc = "done"
    /\ threads' = [threads EXCEPT ![th] = Free]
    /\ UNCHANGED <<clock, BLACKLIST, loggedOut, userVars, dataVars, last>>

----------------------------------------------------------------------------
(* services/usuario_service.py and the login of auth.py                    *)

Cpfs == {"111.111.111-11", "222.222.222-22"}
Senhas == {"senha-1", "senha-2"}

\* usuario_service.py has its own gerar_hash, the same SHA-256
usuario_service_gerar_hash(senha) == <<"sha256", senha>>

UsuarioIds == 1..Len(usuarios)
UsuarioRow(i) ==
    [id |-> i, cpf |-> usuarios[i].cpf, email |-> usuarios[i].email, senha |-> usuarios[i].senha]

\* UsuarioOut: the stored digest is not part of the response
UsuarioOut(i) == [id |-> i, cpf |-> usuarios[i].cpf, email |-> usuarios[i].email]

\* POST /usuarios/ (nome is stored and returned as given; it plays no part)
criar_usuario(cpf, email, senha) ==
    /\ last = Idle
    /\ IF \E i \in UsuarioIds : usuarios[i].email = email
       THEN /\ last' = Resp("criar_usuario", NoToken, 0, 400, "E-mail ja cadastrado.", NoUser,
                            {UsuarioRow(i) : i \in {j \in UsuarioIds : usuarios[j].email = email}},
                            {})
            /\ UNCHANGED userVars
       ELSE IF \E i \in UsuarioIds : usuarios[i].cpf = cpf
       THEN /\ last' = Resp("criar_usuario", NoToken, 0, 400, "CPF ja cadastrado.", NoUser,
                            {UsuarioRow(i) : i \in {j \in UsuarioIds : usuarios[j].cpf = cpf}},
                            {})
            /\ UNCHANGED userVars
       ELSE /\ usuarios' = Append(usuarios, [cpf |-> cpf, email |-> email,
                                             senha |-> usuario_service_gerar_hash(senha)])
            /\ registered' = Append(registered, senha)
            /\ sessions' = sessions
            /\ last' = Resp("criar_usuario", NoToken, 0, 201, "", NoUser, {},
                            {[id |-> Len(usuarios) + 1, cpf |-> cpf, email |-> email]})
    /\ UNCHANGED <<authVars, dataVars>>

\* the row of the user authenticate_user returns, or {} for None
authenticate_user(email, senha) ==
    {i \in UsuarioIds : usuarios[i].email = email /\ usuarios[i].senha = gerar_hash(senha)}

\* mutant: an unknown e-mail is answered differently from a wrong password
login_tells_unknown_email(username, password) ==
    /\ last = Idle
    /\ LET user == authenticate_user(username, password) IN
       IF user = {}
       THEN last' = Resp("login", NoToken, 0, 401,
                         IF \E i \in UsuarioIds : usuarios[i].email = username
                         THEN "Credenciais incorretas" ELSE "Usuario nao encontrado",
                         NoUser,
                         {UsuarioRow(i) : i \in {j \in UsuarioIds : usuarios[j].email = username}},
                         {})
       ELSE \E i \in user :
              last' = Resp("login", NoToken, 0, 200, "", NoUser, {UsuarioRow(i)},
                           {[access_token |->
                                create_access_token([sub |-> usuarios[i].email, user_id |-> i],
                                                    None, clock),
                             token_type |-> "bearer"]})
    /\ UNCHANGED <<authVars, usuarios, registered, dataVars>>
    /\ sessions' = sessions \cup {b.access_token : b \in last'.body}

\* POST /auth/login
login(username, password) ==
    /\ last = Idle
    /\ LET user == authenticate_user(username, password) IN
       IF user = {}
       THEN /\ last' = Resp("login", NoToken, 0, 401, "Credenciais incorretas", NoUser,
                            {UsuarioRow(i) :
                                i \in {j \in UsuarioIds : usuarios[j].email = username}},
                            {})
            /\ sessions' = sessions
       ELSE \E i \in user :
              LET token == create_access_token([sub |-> usuarios[i].email, user_id |-> i],
                                               None, clock)
              IN  /\ last' = Resp("login", NoToken, 0, 200, "", NoUser, {UsuarioRow(i)},
                                  {[access_token |-> token, token_type |-> "bearer"]})
                  /\ sessions' = sessions \cup {token}
    /\ UNCHANGED <<authVars, usuarios, registered, dataVars>>

\* what a handler answers when Depends(verify_token) raises: its body does not run
Rejected(op, token, id, auth) ==
    /\ last' = Resp(op, token, id, auth.status, auth.detail, NoUser, {}, {})
    /\ UNCHANGED <<userVars, dataVars>>

\* GET /usuarios/me
obter_meus_dados(token) ==
    /\ last = Idle
    /\ LET auth == verify_token(token, BLACKLIST, clock) IN
       IF auth.status # 200 THEN Rejected("obter_meus_dados", token, 0, auth)
       ELSE LET uid == auth.user.user_id[1] IN
            /\ IF uid \in UsuarioIds
               THEN last' = Resp("obter_meus_dados", token, 0, 200, "", auth.user,
                                 {UsuarioRow(uid)}, {UsuarioOut(uid)})
               ELSE last' = Resp("obter_meus_dados", token, 0, 404, "Usuario nao encontrado.",
                                 auth.user, {}, {})
            /\ UNCHANGED <<userVars, dataVars>>
    /\ UNCHANGED authVars

----------------------------------------------------------------------------
(* Strings.  A name is a sequence of characters, so that strip(), lower()  *)
(* and ILIKE '%...%' do what they do in the code and in the database.      *)

LowerChar(c) == IF c = "A" THEN "a" ELSE IF c = "B" THEN "b" ELSE IF c = "C" THEN "c" ELSE c

RECURSIVE lower(_)
lower(s) == IF s = <<>> THEN <<>> ELSE <<LowerChar(Head(s))>> \o lower(Tail(s))

RECURSIVE lstrip(_)
lstrip(s) == IF s # <<>> /\ Head(s) = " " THEN lstrip(Tail(s)) ELSE s

RECURSIVE rstrip(_)
rstrip(s) == IF s # <<>> /\ s[Len(s)] = " " THEN rstrip(SubSeq(s, 1, Len(s) - 1)) ELSE s

strip(s) == rstrip(lstrip(s))

contains(hay, needle) ==
    \E i \in 1..(Len(hay) - Len(needle) + 1) : SubSeq(hay, i, i + Len(needle) - 1) = needle

\* column.ilike(f"%{inner}%")
ilike(value, inner) == contains(lower(value), lower(inner))

\* Column(Numeric(10, 2)): a quantity, counted here in thousandths, is
\* stored rounded to hundredths
Numeric_10_2(x) == ((x + 5) \div 10) * 10

\* query.first(): None ({}) when nothing matches, otherwise one matching row;
\* without ORDER BY the database is free to return any of them
first(rows) == IF rows = {} THEN {{}} ELSE {{r} : r \in rows}

\* the foreign key usuario_id -> usuarios.id of the three tables
ForeignKeyOk(uid) == uid \in UsuarioIds

IntegrityError(op, token, id, auth, read) ==
    /\ last' = Resp(op, token, id, 500, "Internal Server Error", auth.user, read, {})
    /\ UNCHANGED <<userVars, dataVars>>

----------------------------------------------------------------------------
(* services/cultura_service.py                                             *)

\* POST /culturas/
criar_cultura(token, nome) ==
    /\ last = Idle
    /\ LET auth == verify_token(token, BLACKLIST, clock) IN
       IF auth.status # 200 THEN Rejected("criar_cultura", token, 0, auth)
       ELSE LET uid == auth.user.user_id[1]
                nome_normalizado == lower(strip(nome))
                matches == {c \in culturas :
                               ilike(c.nome, nome_normalizado) /\ c.usuario_id = uid}
            IN  \E cultura_existente \in first(matches) :
                  IF \E c \in cultura_existente : lower(strip(c.nome)) = nome_normalizado
                  THEN /\ last' = Resp("criar_cultura", token, 0, 400,
                                       "Ja existe uma cultura com este nome cadastrada.",
                                       auth.user, cultura_existente, {})
                       /\ UNCHANGED <<userVars, dataVars>>
                  ELSE IF ~ForeignKeyOk(uid)
                  THEN IntegrityError("criar_cultura", token, 0, auth, cultura_existente)
                  ELSE LET nova_cultura == [id |-> seq.culturas + 1, nome |-> strip(nome),
                                            usuario_id |-> uid]
                       IN  /\ culturas' = culturas \cup {nova_cultura}
                           /\ seq' = [seq EXCEPT !.culturas = @ + 1]
                           /\ last' = Resp("criar_cultura", token, 0, 201, "", auth.user,
                                           cultura_existente, {nova_cultura})
                           /\ UNCHANGED <<userVars, producoes, estoque>>
    /\ UNCHANGED authVars

\* GET /culturas/ (nome: <<>> for no filter; skip and limit at their defaults)
listar_culturas(token, nome) ==
    /\ last = Idle
    /\ LET auth == verify_token(token, BLACKLIST, clock) IN
       IF auth.status # 200 THEN Rejected("listar_culturas", token, 0, auth)
       ELSE LET uid == auth.user.user_id[1]
                rows == {c \in culturas :
                            /\ c.usuario_id = uid
                            /\ (nome # <<>> /\ nome[1] # <<>>) => ilike(c.nome, strip(nome[1]))}
            IN  /\ last' = Resp("listar_culturas", token, 0, 200, "", auth.user, rows, rows)
                /\ UNCHANGED <<userVars, dataVars>>
    /\ UNCHANGED authVars

\* GET /culturas/{cultura_id}
obter_cultura(token, cultura_id) ==
    /\ last = Idle
    /\ LET auth == verify_token(token, BLACKLIST, clock) IN
       IF auth.status # 200 THEN Rejected("obter_cultura", token, cultura_id, auth)
       ELSE LET uid == auth.user.user_id[1] IN
            \E cultura \in first({c \in culturas : c.id = cultura_id /\ c.usuario_id = uid}) :
              /\ IF cultura = {}
                 THEN last' = Resp("obter_cultura", token, cultura_id, 404,
                                   "Cultura nao encontrada ou voce nao tem permissao.",
                                   auth.user, {}, {})
                 ELSE last' = Resp("obter_cultura", token, cultura_id, 200, "", auth.user,
                                   cultura, cultura)
              /\ UNCHANGED <<userVars, dataVars>>
    /\ UNCHANGED authVars

\* PUT /culturas/{cultura_id}
atualizar_cultura(token, cultura_id, nome) ==
    /\ last = Idle
    /\ LET auth == verify_token(token, BLACKLIST, clock) IN
       IF auth.status # 200 THEN Rejected("atualizar_cultura", token, cultura_id, auth)
       ELSE LET uid == auth.user.user_id[1] IN
            \E cultura \in first({c \in culturas : c.id = cultura_id /\ c.usuario_id = uid}) :
              IF cultura = {}
              THEN /\ last' = Resp("atualizar_cultura", token, cultura_id, 404,
                                   "Cultura nao encontrada.", auth.user, {}, {})
                   /\ UNCHANGED <<userVars, dataVars>>
              ELSE LET novo_nome_normalizado == lower(strip(nome))
                       matches == {c \in culturas :
                                      /\ ilike(c.nome, novo_nome_normalizado)
                                      /\ c.usuario_id = uid
                                      /\ c.id # cultura_id}
                   IN  \E cultura_com_mesmo_nome \in first(matches) :
                         IF \E c \in cultura_com_mesmo_nome :
                                lower(strip(c.nome)) = novo_nome_normalizado
                         THEN /\ last' = Resp("atualizar_cultura", token, cultura_id, 400,
                                              "Ja existe outra cultura com este nome.",
                                              auth.user, cultura \cup cultura_com_mesmo_nome, {})
                              /\ UNCHANGED <<userVars, dataVars>>
                         ELSE LET nova == {[c EXCEPT !.nome = strip(nome)] : c \in cultura} IN
                              /\ culturas' = (culturas \ cultura) \cup nova
                              /\ last' = Resp("atualizar_cultura", token, cultura_id, 200, "",
                                              auth.user, cultura \cup cultura_com_mesmo_nome,
                                              nova)
                              /\ UNCHANGED <<userVars, producoes, estoque, seq>>
    /\ UNCHANGED authVars

\* mutant: the culture is deleted without looking for productions, which
\* the cascade of Cultura.producoes deletes with it
excluir_cultura_cascade(token, cultura_id) ==
    /\ last = Idle
    /\ LET auth == verify_token(token, BLACKLIST, clock) IN
       IF auth.status # 200 THEN Rejected("excluir_cultura", token, cultura_id, auth)
       ELSE LET uid == auth.user.user_id[1] IN
            \E cultura \in first({c \in culturas : c.id = cultura_id /\ c.usuario_id = uid}) :
              IF cultura = {}
              THEN /\ last' = Resp("excluir_cultura", token, cultura_id, 404,
                                   "Cultura nao encontrada.", auth.user, {}, {})
                   /\ UNCHANGED <<userVars, dataVars>>
              ELSE /\ culturas' = culturas \ cultura
                   /\ producoes' = {p \in producoes : p.cultura_id # cultura_id}
                   /\ last' = Resp("excluir_cultura", token, cultura_id, 204, "",
                                   auth.user, cultura, {})
                   /\ UNCHANGED <<userVars, estoque, seq>>
    /\ UNCHANGED authVars

\* DELETE /culturas/{cultura_id}; db.delete(cultura) cascades to its producoes
excluir_cultura(token, cultura_id) ==
    /\ last = Idle
    /\ LET auth == verify_token(token, BLACKLIST, clock) IN
       IF auth.status # 200 THEN Rejected("excluir_cultura", token, cultura_id, auth)
       ELSE LET uid == auth.user.user_id[1] IN
            \E cultura \in first({c \in culturas : c.id = cultura_id /\ c.usuario_id = uid}) :
              IF cultura = {}
              THEN /\ last' = Resp("excluir_cultura", token, cultura_id, 404,
                                   "Cultura nao encontrada.", auth.user, {}, {})
                   /\ UNCHANGED <<userVars, dataVars>>
              ELSE LET associadas == {p \in producoes : p.cultura_id = cultura_id} IN
                   IF associadas # {}
                   THEN /\ last' = Resp("excluir_cultura", token, cultura_id, 400,
                                        "Nao e possivel excluir cultura com producoes associadas.",
                                        auth.user, cultura \cup associadas, {})
                        /\ UNCHANGED <<userVars, dataVars>>
                   ELSE /\ culturas' = culturas \ cultura
                        /\ producoes' = producoes \ associadas
                        /\ last' = Resp("excluir_cultura", token, cultura_id, 204, "",
                                        auth.user, cultura, {})
                        /\ UNCHANGED <<userVars, estoque, seq>>
    /\ UNCHANGED authVars

----------------------------------------------------------------------------
(* services/producao_service.py, services/filtro_service.py                *)

SecondsPerDay == 2

\* date.today(), as a day number
date_today(now) == (now \div TicksPerSecond) \div SecondsPerDay

\* an optional filter is <<>> (None) or <<value>>
aplicar_filtros_producao(query, data_inicial, data_final, cultura_id) ==
    {p \in query :
        /\ data_inicial # <<>> => p.data_colheita >= data_inicial[1]
        /\ data_final # <<>> => p.data_colheita <= data_final[1]
        /\ cultura_id # <<>> => p.cultura_id = cultura_id[1]}

\* mutant: the culture is looked up by id alone
criar_producao_any_culture(token, cultura_id, quantidade, data_colheita) ==
    /\ last = Idle
    /\ LET auth == verify_token(token, BLACKLIST, clock) IN
       IF auth.status # 200 THEN Rejected("criar_producao", token, 0, auth)
       ELSE LET uid == auth.user.user_id[1] IN
            \E cultura \in first({c \in culturas : c.id = cultura_id}) :
              IF cultura = {}
              THEN /\ last' = Resp("criar_producao", token, 0, 404,
                                   "Cultura nao encontrada ou voce nao tem permissao.",
                                   auth.user, {}, {})
                   /\ UNCHANGED <<userVars, dataVars>>
              ELSE IF quantidade <= 0
              THEN /\ last' = Resp("criar_producao", token, 0, 400,
                                   "A quantidade deve ser maior que zero.", auth.user, cultura, {})
                   /\ UNCHANGED <<userVars, dataVars>>
              ELSE IF data_colheita > date_today(clock)
              THEN /\ last' = Resp("criar_producao", token, 0, 400,
                                   "A data de colheita nao pode ser futura.", auth.user, cultura,
                                   {})
                   /\ UNCHANGED <<userVars, dataVars>>
              ELSE IF ~ForeignKeyOk(uid)
              THEN IntegrityError("criar_producao", token, 0, auth, cultura)
              ELSE LET nova_producao ==
                           [id |-> seq.producao + 1, usuario_id |-> uid,
                            cultura_id |-> cultura_id,
                            quantidade |-> Numeric_10_2(quantidade),
                            data_colheita |-> data_colheita]
                   IN  /\ producoes' = producoes \cup {nova_producao}
                       /\ seq' = [seq EXCEPT !.producao = @ + 1]
                       /\ last' = Resp("criar_producao", token, 0, 201, "", auth.user, cultura,
                                       {nova_producao})
                       /\ UNCHANGED <<userVars, culturas, estoque>>
    /\ UNCHANGED authVars

\* POST /producoes/
criar_producao(token, cultura_id, quantidade, data_colheita) ==
    /\ last = Idle
    /\ LET auth == verify_token(token, BLACKLIST, clock) IN
       IF auth.status # 200 THEN Rejected("criar_producao", token, 0, auth)
       ELSE LET uid == auth.user.user_id[1] IN
            \E cultura \in first({c \in culturas : c.id = cultura_id /\ c.usuario_id = uid}) :
              IF cultura = {}
              THEN /\ last' = Resp("criar_producao", token, 0, 404,
                                   "Cultura nao encontrada ou voce nao tem permissao.",
                                   auth.user, {}, {})
                   /\ UNCHANGED <<userVars, dataVars>>
              ELSE IF quantidade <= 0
              THEN /\ last' = Resp("criar_producao", token, 0, 400,
                                   "A quantidade deve ser maior que zero.", auth.user, cultura, {})
                   /\ UNCHANGED <<userVars, dataVars>>
              ELSE IF data_colheita > date_today(clock)
              THEN /\ last' = Resp("criar_producao", token, 0, 400,
                                   "A data de colheita nao pode ser futura.", auth.user, cultura,
                                   {})
                   /\ UNCHANGED <<userVars, dataVars>>
              ELSE IF ~ForeignKeyOk(uid)
              THEN IntegrityError("criar_producao", token, 0, auth, cultura)
              ELSE LET nova_producao ==
                           [id |-> seq.producao + 1, usuario_id |-> uid,
                            cultura_id |-> cultura_id,
                            quantidade |-> Numeric_10_2(quantidade),
                            data_colheita |-> data_colheita]
                   IN  /\ producoes' = producoes \cup {nova_producao}
                       /\ seq' = [seq EXCEPT !.producao = @ + 1]
                       /\ last' = Resp("criar_producao", token, 0, 201, "", auth.user, cultura,
                                       {nova_producao})
                       /\ UNCHANGED <<userVars, culturas, estoque>>
    /\ UNCHANGED authVars

\* GET /producoes/ (skip and limit at their defaults)
listar_producoes(token, data_inicial, data_final, cultura_id) ==
    /\ last = Idle
    /\ LET auth == verify_token(token, BLACKLIST, clock) IN
       IF auth.status # 200 THEN Rejected("listar_producoes", token, 0, auth)
       ELSE LET uid == auth.user.user_id[1]
                rows == aplicar_filtros_producao({p \in producoes : p.usuario_id = uid},
                                                 data_inicial, data_final, cultura_id)
            IN  /\ last' = Resp("listar_producoes", token, 0, 200, "", auth.user, rows, rows)
                /\ UNCHANGED <<userVars, dataVars>>
    /\ UNCHANGED authVars

\* GET /producoes/{producao_id}
obter_producao(token, producao_id) ==
    /\ last = Idle
    /\ LET auth == verify_token(token, BLACKLIST, clock) IN
       IF auth.status # 200 THEN Rejected("obter_producao", token, producao_id, auth)
       ELSE LET uid == auth.user.user_id[1] IN
            \E producao \in first({p \in producoes : p.id = producao_id /\ p.usuario_id = uid}) :
              /\ IF producao = {}
                 THEN last' = Resp("obter_producao", token, producao_id, 404,
                                   "Producao nao encontrada ou voce nao tem permissao.",
                                   auth.user, {}, {})
                 ELSE last' = Resp("obter_producao", token, producao_id, 200, "", auth.user,
                                   producao, producao)
              /\ UNCHANGED <<userVars, dataVars>>
    /\ UNCHANGED authVars

\* PUT /producoes/{producao_id}
atualizar_producao(token, producao_id, cultura_id, quantidade, data_colheita) ==
    /\ last = Idle
    /\ LET auth == verify_token(token, BLACKLIST, clock) IN
       IF auth.status # 200 THEN Rejected("atualizar_producao", token, producao_id, auth)
       ELSE LET uid == auth.user.user_id[1] IN
            \E producao \in first({p \in producoes : p.id = producao_id /\ p.usuario_id = uid}) :
              IF producao = {}
              THEN /\ last' = Resp("atualizar_producao", token, producao_id, 404,
                                   "Producao nao encontrada.", auth.user, {}, {})
                   /\ UNCHANGED <<userVars, dataVars>>
              ELSE \E nova_cultura \in
                        IF \E p \in producao : cultura_id # p.cultura_id
                        THEN first({c \in culturas : c.id = cultura_id /\ c.usuario_id = uid})
                        ELSE {producao} :  \* same culture: no query is made
                     IF nova_cultura = {}
                     THEN /\ last' = Resp("atualizar_producao", token, producao_id, 400,
                                          "Cultura nao encontrada ou nao pertence ao usuario.",
                                          auth.user, producao, {})
                          /\ UNCHANGED <<userVars, dataVars>>
                     ELSE IF quantidade <= 0
                     THEN /\ last' = Resp("atualizar_producao", token, producao_id, 400,
                                          "A quantidade deve ser maior que zero.", auth.user,
                                          producao \cup nova_cultura, {})
                          /\ UNCHANGED <<userVars, dataVars>>
                     ELSE IF data_colheita > date_today(clock)
                     THEN /\ last' = Resp("atualizar_producao", token, producao_id, 400,
                                          "A data de colheita nao pode ser futura.", auth.user,
                                          producao \cup nova_cultura, {})
                          /\ UNCHANGED <<userVars, dataVars>>
                     ELSE LET nova == {[p EXCEPT !.cultura_id = cultura_id,
                                                 !.quantidade = Numeric_10_2(quantidade),
                                                 !.data_colheita = data_colheita] :
                                          p \in producao}
                          IN  /\ producoes' = (producoes \ producao) \cup nova
                              /\ last' = Resp("atualizar_producao", token, producao_id, 200, "",
                                              auth.user, producao \cup nova_cultura, nova)
                              /\ UNCHANGED <<userVars, culturas, estoque, seq>>
    /\ UNCHANGED authVars

\* mutant: the production is looked up by id alone
excluir_producao_any_owner(token, producao_id) ==
    /\ last = Idle
    /\ LET auth == verify_token(token, BLACKLIST, clock) IN
       IF auth.status # 200 THEN Rejected("excluir_producao", token, producao_id, auth)
       ELSE \E producao \in first({p \in producoes : p.id = producao_id}) :
              IF producao = {}
              THEN /\ last' = Resp("excluir_producao", token, producao_id, 404,
                                   "Producao nao encontrada ou voce nao tem permissao.",
                                   auth.user, {}, {})
                   /\ UNCHANGED <<userVars, dataVars>>
              ELSE /\ producoes' = producoes \ producao
                   /\ last' = Resp("excluir_producao", token, producao_id, 204, "", auth.user,
                                   producao, {})
                   /\ UNCHANGED <<userVars, culturas, estoque, seq>>
    /\ UNCHANGED authVars

\* DELETE /producoes/{producao_id}
excluir_producao(token, producao_id) ==
    /\ last = Idle
    /\ LET auth == verify_token(token, BLACKLIST, clock) IN
       IF auth.status # 200 THEN Rejected("excluir_producao", token, producao_id, auth)
       ELSE LET uid == auth.user.user_id[1] IN
            \E producao \in first({p \in producoes : p.id = producao_id /\ p.usuario_id = uid}) :
              IF producao = {}
              THEN /\ last' = Resp("excluir_producao", token, producao_id, 404,
                                   "Producao nao encontrada.", auth.user, {}, {})
                   /\ UNCHANGED <<userVars, dataVars>>
              ELSE /\ producoes' = producoes \ producao
                   /\ last' = Resp("excluir_producao", token, producao_id, 204, "", auth.user,
                                   producao, {})
                   /\ UNCHANGED <<userVars, culturas, estoque, seq>>
    /\ UNCHANGED authVars

----------------------------------------------------------------------------
(* services/estoque_service.py (validade and fornecedor, both optional, are *)
(* stored and returned as given and are left out)                          *)

\* POST /estoque/
criar_item(token, produto_nome, quantidade_estoque) ==
    /\ last = Idle
    /\ LET auth == verify_token(token, BLACKLIST, clock) IN
       IF auth.status # 200 THEN Rejected("criar_item", token, 0, auth)
       ELSE LET uid == auth.user.user_id[1] IN
            IF ~ForeignKeyOk(uid) THEN IntegrityError("criar_item", token, 0, auth, {})
            ELSE LET novo == [id |-> seq.estoque + 1, produto_nome |-> produto_nome,
                              quantidade_estoque |-> Numeric_10_2(quantidade_estoque),
                              usuario_id |-> uid]
                 IN  /\ estoque' = estoque \cup {novo}
                     /\ seq' = [seq EXCEPT !.estoque = @ + 1]
                     /\ last' = Resp("criar_item", token, 0, 201, "", auth.user, {}, {novo})
                     /\ UNCHANGED <<userVars, culturas, producoes>>
    /\ UNCHANGED authVars

\* GET /estoque/ (produto: <<>> for no filter; skip and limit at their defaults)
listar_estoque(token, produto) ==
    /\ last = Idle
    /\ LET auth == verify_token(token, BLACKLIST, clock) IN
       IF auth.status # 200 THEN Rejected("listar_estoque", token, 0, auth)
       ELSE LET uid == auth.user.user_id[1]
                rows == {e \in estoque :
                            /\ e.usuario_id = uid
                            /\ (produto # <<>> /\ produto[1] # <<>>)
                               => ilike(e.produto_nome, produto[1])}
            IN  /\ last' = Resp("listar_estoque", token, 0, 200, "", auth.user, rows, rows)
                /\ UNCHANGED <<userVars, dataVars>>
    /\ UNCHANGED authVars

\* PUT /estoque/{item_id}
atualizar_item(token, item_id, produto_nome, quantidade_estoque) ==
    /\ last = Idle
    /\ LET auth == verify_token(token, BLACKLIST, clock) IN
       IF auth.status # 200 THEN Rejected("atualizar_item", token, item_id, auth)
       ELSE LET uid == auth.user.user_id[1] IN
            \E item \in first({e \in estoque : e.id = item_id /\ e.usuario_id = uid}) :
              IF item = {}
              THEN /\ last' = Resp("atualizar_item", token, item_id, 404,
                                   "Item nao encontrado.", auth.user, {}, {})
                   /\ UNCHANGED <<userVars, dataVars>>
              ELSE LET novo == {[e EXCEPT !.produto_nome = produto_nome,
                                          !.quantidade_estoque =
                                              Numeric_10_2(quantidade_estoque)] :
                                   e \in item}
                   IN  /\ estoque' = (estoque \ item) \cup novo
                       /\ last' = Resp("atualizar_item", token, item_id, 200, "", auth.user,
                                       item, novo)
                       /\ UNCHANGED <<userVars, culturas, producoes, seq>>
    /\ UNCHANGED authVars

\* DELETE /estoque/{item_id}
deletar_item(token, item_id) ==
    /\ last = Idle
    /\ LET auth == verify_token(token, BLACKLIST, clock) IN
       IF auth.status # 200 THEN Rejected("deletar_item", token, item_id, auth)
       ELSE LET uid == auth.user.user_id[1] IN
            \E item \in first({e \in estoque : e.id = item_id /\ e.usuario_id = uid}) :
              IF item = {}
              THEN /\ last' = Resp("deletar_item", token, item_id, 404,
                                   "Item nao encontrado.", auth.user, {}, {})
                   /\ UNCHANGED <<userVars, dataVars>>
              ELSE /\ estoque' = estoque \ item
                   /\ last' = Resp("deletar_item", token, item_id, 204, "", auth.user, item, {})
                   /\ UNCHANGED <<userVars, culturas, producoes, seq>>
    /\ UNCHANGED authVars

----------------------------------------------------------------------------
(* services/stats_service.py                                               *)

RECURSIVE soma(_)
soma(rows) ==
    IF rows = {} THEN 0
    ELSE LET p == CHOOSE r \in rows : TRUE IN p.quantidade + soma(rows \ {p})

\* the mean is kept as the pair <<sum, count>>
Estatisticas(dados) ==
    IF dados = {}
    THEN [mensagem |-> "Nenhuma producao encontrada com os filtros aplicados.",
          quantidade_registros |-> 0, soma_quantidade |-> 0, media_quantidade |-> <<0, 1>>,
          minimo_quantidade |-> 0, maximo_quantidade |-> 0]
    ELSE [quantidade_registros |-> Cardinality(dados),
          soma_quantidade |-> soma(dados),
          media_quantidade |-> <<soma(dados), Cardinality(dados)>>,
          minimo_quantidade |->
              CHOOSE q \in {p.quantidade : p \in dados} :
                  \A p \in dados : q <= p.quantidade,
          maximo_quantidade |->
              CHOOSE q \in {p.quantidade : p \in dados} :
                  \A p \in dados : q >= p.quantidade]

\* GET /stats/producao
estatisticas_producao(token, data_inicial, data_final, cultura_id) ==
    /\ last = Idle
    /\ LET auth == verify_token(token, BLACKLIST, clock) IN
       IF auth.status # 200 THEN Rejected("estatisticas_producao", token, 0, auth)
       ELSE LET uid == auth.user.user_id[1]
                dados == aplicar_filtros_producao({p \in producoes : p.usuario_id = uid},
                                                  data_inicial, data_final, cultura_id)
            IN  /\ last' = Resp("estatisticas_producao", token, 0, 200, "", auth.user, dados,
                                {Estatisticas(dados)})
                /\ UNCHANGED <<userVars, dataVars>>
    /\ UNCHANGED authVars

----------------------------------------------------------------------------

Init ==
    /\ clock = 0
    /\ BLACKLIST = {}
    /\ loggedOut = {}
    /\ threads = [th \in Threads |-> Free]
    /\ usuarios = <<>>
    /\ registered = <<>>
    /\ sessions = {}
    /\ culturas = {}
    /\ producoes = {}
    /\ estoque = {}
    /\ seq = [culturas |-> 0, producao |-> 0, estoque |-> 0]
    /\ last = Idle

\* the bearer strings presented to logout: session tokens of both users, a
\* forged one and one that is no JWT
LogoutTokens ==
    {jwt_sign("valid", <<"a@x">>, <<1>>, [exp_json |-> "number", exp |-> e]) :
        e \in {ACCESS_TOKEN_EXPIRE, ACCESS_TOKEN_EXPIRE + 1, MaxExp}}
        \cup {jwt_sign("valid", <<"b@x">>, <<2>>, [exp_json |-> "number", exp |-> e]) :
                e \in {ACCESS_TOKEN_EXPIRE, ACCESS_TOKEN_EXPIRE + 1}}
        \cup {jwt_sign("forged", <<"a@x">>, <<1>>,
                        [exp_json |-> "number", exp |-> ACCESS_TOKEN_EXPIRE])}
        \cup {Garbage}

NextAuth ==
    \/ Tick
    \/ Reply
    \/ \E token \in LogoutTokens : logout(token)
    \/ \E token \in Tokens : VerifyRequest(token)
    \/ \E email \in Emails, id \in UserIds : IssueToken(email, id)

SpecAuth == Init /\ [][NextAuth]_vars

\* the session tokens login can return within the clock's range
LoginTokens == Issued(MaxClock)

NextLogin ==
    \/ Tick
    \/ Reply
    \/ \E cpf \in Cpfs, email \in Emails, senha \in Senhas : criar_usuario(cpf, email, senha)
    \/ \E username \in Emails, password \in Senhas : login(username, password)
    \/ \E token \in {t \in LoginTokens : t.exp = ACCESS_TOKEN_EXPIRE} : logout(token)
    \/ \E token \in LoginTokens : obter_meus_dados(token)

SpecLogin == Init /\ [][NextLogin]_vars

----------------------------------------------------------------------------
(* Clients that hold the tokens logins gave them: SpecSessions             *)

\* the tokens in the clients' hands, presented between requests
Held == IF last = Idle THEN sessions ELSE {}

NextSessions ==
    \/ Tick
    \/ Reply
    \/ \E cpf \in Cpfs, email \in Emails, senha \in Senhas : criar_usuario(cpf, email, senha)
    \/ \E username \in Emails, password \in Senhas : login(username, password)
    \/ \E token \in Held : logout(token)
    \/ \E token \in Held : obter_meus_dados(token)

SpecSessions == Init /\ [][NextSessions]_vars

----------------------------------------------------------------------------
(* create_access_token with and without expires_delta: SpecIssue           *)

\* timedeltas, in ticks: none at all, half a second, one and two seconds
Deltas == {0, 1, TicksPerSecond, 2 * TicksPerSecond}

NextIssue ==
    \/ Tick
    \/ Reply
    \/ \E email \in Emails, id \in UserIds : IssueToken(email, id)
    \/ \E email \in Emails, id \in UserIds, expires_delta \in Deltas :
         IssueTokenExpiring(email, id, expires_delta)
    \/ \E token \in Issued(clock) : VerifyRequest(token)

SpecIssue == Init /\ [][NextIssue]_vars

----------------------------------------------------------------------------
(* logout and verify_token on parallel threads: SpecThreads                *)

\* the tokens of two sessions, opened a second apart
ThreadTokens ==
    {create_access_token([sub |-> "a@x", user_id |-> 1], None, 0),
     create_access_token([sub |-> "b@x", user_id |-> 2], None, TicksPerSecond)}

NextThreads ==
    \/ Tick
    \/ \E th \in Threads, token \in ThreadTokens : logout_begin(th, token)
    \/ \E th \in Threads : BLACKLIST_add(th)
    \/ \E th \in Threads : logout_return(th)
    \/ \E th \in Threads, token \in ThreadTokens : verify_begin(th, token)
    \/ \E th \in Threads : BLACKLIST_contains(th)
    \/ \E th \in Threads : verify_return(th)
    \/ \E th \in Threads : thread_free(th)

SpecThreads == Init /\ [][NextThreads]_vars

----------------------------------------------------------------------------
(* The resource handlers, with two users registered: SpecData              *)

MaxRows == 2

\* the time of SpecData: the second day has begun
DataClock == SecondsPerDay * TicksPerSecond

InitData ==
    /\ clock = DataClock
    /\ BLACKLIST = {}
    /\ loggedOut = {}
    /\ threads = [th \in Threads |-> Free]
    /\ usuarios = <<[cpf |-> "111.111.111-11", email |-> "a@x",
                     senha |-> usuario_service_gerar_hash("senha-1")],
                    [cpf |-> "222.222.222-22", email |-> "b@x",
                     senha |-> usuario_service_gerar_hash("senha-2")]>>
    /\ registered = <<"senha-1", "senha-2">>
    /\ sessions = {create_access_token([sub |-> "a@x", user_id |-> 1], None, 0),
                   create_access_token([sub |-> "a@x", user_id |-> 1], None, DataClock),
                   create_access_token([sub |-> "b@x", user_id |-> 2], None, DataClock)}
    /\ culturas = {}
    /\ producoes = {}
    /\ estoque = {}
    /\ seq = [culturas |-> 0, producao |-> 0, estoque |-> 0]
    /\ last = Idle

\* the token login gives user i at time t0
SessionToken(i, t0) == create_access_token([sub |-> usuarios[i].email, user_id |-> i], None, t0)

\* the sessions opened at DataClock; the second user's may log out
GoodTokens == {SessionToken(i, DataClock) : i \in UsuarioIds}

\* tokens verify_token turns down whatever the BLACKLIST: expired, forged,
\* missing a claim, with an exp that is no number, and no JWT at all
BadTokens ==
    {SessionToken(1, 0),
     jwt_sign("forged", <<"a@x">>, <<1>>, [exp_json |-> "number", exp |-> MaxExp]),
     jwt_sign("valid", <<>>, <<1>>, [exp_json |-> "number", exp |-> MaxExp]),
     jwt_sign("valid", <<"a@x">>, <<1>>, [exp_json |-> "null", exp |-> 0]),
     Garbage}

DataTokens == GoodTokens \cup BadTokens

\* a client sends its next request once the last response is delivered
Presented == IF last = Idle THEN DataTokens ELSE {}

Nomes == {<<"a", "b">>, <<" ", "A", "B">>, <<"b">>}
Produtos == {<<"p", "a">>}
\* quantities in thousandths: 0, 0.004 and 1
Quantidades == {0, 4, 1000}
Datas == {date_today(DataClock), date_today(DataClock) + 1}
Ids == 1..MaxRows
NoFilter == <<>>
Optional(S) == {NoFilter} \cup {<<x>> : x \in S}

\* the inputs of an insert, while the tables have room
Inserted == seq.culturas + seq.producao + seq.estoque
Room(S) == IF Inserted < MaxRows THEN S ELSE {}

NextData ==
    \/ Reply
    \/ logout(SessionToken(2, DataClock))
    \/ \E token \in Presented : obter_meus_dados(token)
    \/ \E token \in Presented, nome \in Room(Nomes) : criar_cultura(token, nome)
    \/ \E token \in Presented, nome \in Optional(Nomes) : listar_culturas(token, nome)
    \/ \E token \in Presented, id \in Ids : obter_cultura(token, id)
    \/ \E token \in Presented, id \in Ids, nome \in Nomes : atualizar_cultura(token, id, nome)
    \/ \E token \in Presented, id \in Ids : excluir_cultura(token, id)
    \/ \E token \in Presented, cid \in Room(Ids), q \in Quantidades, d \in Datas :
         criar_producao(token, cid, q, d)
    \/ \E token \in Presented, cid \in Optional(Ids), d \in Optional(Datas) :
         listar_producoes(token, d, NoFilter, cid)
    \/ \E token \in Presented, id \in Ids : obter_producao(token, id)
    \/ \E token \in Presented, id \in Ids, cid \in Ids, q \in Quantidades, d \in Datas :
         atualizar_producao(token, id, cid, q, d)
    \/ \E token \in Presented, id \in Ids : excluir_producao(token, id)
    \/ \E token \in Presented, produto \in Room(Produtos), q \in Quantidades \ {0} :
         criar_item(token, produto, q)
    \/ \E token \in Presented, produto \in Optional(Produtos) : listar_estoque(token, produto)
    \/ \E token \in Presented, id \in Ids, produto \in Produtos, q \in Quantidades \ {0} :
         atualizar_item(token, id, produto, q)
    \/ \E token \in Presented, id \in Ids : deletar_item(token, id)
    \/ \E token \in Presented, cid \in Optional(Ids), d \in Optional(Datas) :
         estatisticas_producao(token, NoFilter, d, cid)

SpecData == InitData /\ [][NextData]_vars

----------------------------------------------------------------------------
(* The culture and production handlers in the hands of the two users'      *)
(* sessions: SpecCulturas                                                  *)

MaxCulturas == 3
MaxProducoes == 1

\* the session tokens, presented once the last response is delivered
Sessions == IF last = Idle THEN GoodTokens ELSE {}

CulturaIds == 1..MaxCulturas
ProducaoIds == 1..MaxProducoes

NextCulturas ==
    \/ Reply
    \/ \E token \in Sessions, nome \in Nomes :
         seq.culturas < MaxCulturas /\ criar_cultura(token, nome)
    \/ \E token \in Sessions, id \in CulturaIds, nome \in Nomes :
         atualizar_cultura(token, id, nome)
    \/ \E token \in Sessions, id \in CulturaIds : excluir_cultura(token, id)
    \/ \E token \in Sessions, cid \in CulturaIds, q \in Quantidades, d \in Datas :
         seq.producao < MaxProducoes /\ criar_producao(token, cid, q, d)
    \/ \E token \in Sessions, id \in ProducaoIds, cid \in CulturaIds, q \in Quantidades,
          d \in Datas :
         atualizar_producao(token, id, cid, q, d)
    \/ \E token \in Sessions, id \in ProducaoIds : excluir_producao(token, id)

SpecCulturas == InitData /\ [][NextCulturas]_vars

----------------------------------------------------------------------------
(* Properties of the token authority, checked under SpecAuth               *)

Verified == last.op = "verify_token"
InvalidToken == last.status = 401 /\ last.detail = "Token invalido" /\ last.user = NoUser
ExpiredToken == last.status = 401 /\ last.detail = "Token expirado" /\ last.user = NoUser
Accepted == last.status = 200

\* the instant (in ticks) from which a numeric exp claim counts as passed
ExpiryTick(token) == token.exp * TicksPerSecond

\* C1: once logout(token) has completed, every later verify_token(token)
\* fails with InvalidToken (401 "Token invalido"), whether the time is before,
\* at or after the token's expiry; it never succeeds and never reports
\* ExpiredToken.
C1_RevokedIsInvalid ==
    (Verified /\ last.token \in loggedOut) => InvalidToken

\* a logged-out session token is verified exactly at its expiry
C1_Witness ==
    /\ Verified
    /\ last.token \in loggedOut
    /\ last.token \in Issued(clock)
    /\ clock = ExpiryTick(last.token)
    /\ InvalidToken

\* C2: the token returned by create_access_token({sub: email, user_id: id})
\* at time t0, while not in the revocation set, is accepted by verify_token
\* at every time t with t0 <= t < expiry (the token's exp claim), and the
\* result is exactly {email, user_id}.
C2_IssuedIsAccepted ==
    \A e \in Emails, i \in UserIds, t0 \in 0..clock :
        LET token == create_access_token([sub |-> e, user_id |-> i], None, t0) IN
        (Verified /\ last.token = token /\ token \notin BLACKLIST
            /\ clock < ExpiryTick(token))
        => (Accepted /\ last.user = [email |-> <<e>>, user_id |-> <<i>>])

\* a session token is accepted at the last tick before its expiry, some
\* time after it was issued
C2_Witness ==
    /\ Verified
    /\ last.token \in Issued(0)
    /\ clock = ExpiryTick(last.token) - 1
    /\ last.token \notin BLACKLIST
    /\ Accepted
    /\ last.user = [email |-> <<"b@x">>, user_id |-> <<2>>]

\* C3: for an issued, validly signed token that is not in the revocation
\* set, verify_token at any time now >= expiry, now = expiry included, fails
\* with ExpiredToken (401 "Token expirado") and returns no identity.
C3_ExpiredIsRejected ==
    (Verified /\ last.token \in Issued(clock) /\ last.token \notin BLACKLIST
        /\ clock >= ExpiryTick(last.token))
    => ExpiredToken

\* an unrevoked session token is verified exactly at its expiry
C3_Witness ==
    /\ Verified
    /\ last.token \in Issued(clock)
    /\ last.token \notin BLACKLIST
    /\ clock = ExpiryTick(last.token)
    /\ ExpiredToken

Outcome(token) == verify_token(token, BLACKLIST, clock)
IsExpiredToken(r) == r.status = 401 /\ r.detail = "Token expirado"
IsInvalidToken(r) == r.status = 401 /\ r.detail = "Token invalido"

\* C4 as stated: once the time has reached an issued token's expiry, every
\* verify_token of it fails with ExpiredToken from then on, whatever logout
\* calls happen afterwards.
C4_ExpiredForGood ==
    [][\A token \in Issued(clock) :
          IsExpiredToken(Outcome(token)) => IsExpiredToken(Outcome(token)')]_vars

\* C4 (amended): once the time has reached an issued token's expiry the token
\* is never accepted again: from then on verify_token fails with ExpiredToken
\* as long as the token is not in the revocation set, and with InvalidToken
\* once a logout has put it there.
C4_ExpiredNeverAccepted ==
    [][\A token \in Issued(clock) :
          clock >= ExpiryTick(token)
          => /\ clock' >= ExpiryTick(token)
             /\ IF token \in BLACKLIST'
                THEN IsInvalidToken(Outcome(token)')
                ELSE IsExpiredToken(Outcome(token)')]_vars

\* a session token is logged out after its expiry and then verified
C4_Witness ==
    /\ Verified
    /\ last.token \in Issued(clock)
    /\ clock > ExpiryTick(last.token)
    /\ last.token \in loggedOut
    /\ InvalidToken

\* C5: a token whose signature does not verify under the configured secret
\* and algorithm always fails verify_token with InvalidToken, also when its
\* exp claim is already in the past.
C5_BadSignatureIsInvalid ==
    (Verified /\ last.token.sig # "valid") => InvalidToken

\* an unrevoked forged token with an exp in the past is verified
C5_Witness ==
    /\ Verified
    /\ last.token.sig = "forged"
    /\ last.token.exp_json = "number"
    /\ clock > ExpiryTick(last.token)
    /\ last.token \notin BLACKLIST
    /\ InvalidToken

\* validly signed, unexpired (no exp, or a numeric exp in the future),
\* unrevoked
Unexpired(token) ==
    \/ token.exp_json = "absent"
    \/ token.exp_json = "number" /\ clock < ExpiryTick(token)
Current(token) == token.sig = "valid" /\ Unexpired(token) /\ token \notin BLACKLIST

\* C6 as stated: a validly signed, unexpired, unrevoked token is rejected
\* (InvalidToken) exactly when sub or user_id is absent; a token carrying
\* both, whatever their values, is accepted and its two values are returned.
C6_RejectedIffAbsent ==
    (Verified /\ Current(last.token))
    => /\ InvalidToken <=> (last.token.sub = <<>> \/ last.token.user_id = <<>>)
       /\ (last.token.sub # <<>> /\ last.token.user_id # <<>>)
          => (Accepted /\ last.user = [email |-> last.token.sub,
                                       user_id |-> last.token.user_id])

\* C6 (amended): a validly signed, unexpired, unrevoked token is rejected
\* (InvalidToken) exactly when sub or user_id is absent or falsy (an empty
\* string, 0); a token carrying both with truthy values is accepted and its
\* two values are returned.
C6_RejectedIffFalsy ==
    (Verified /\ Current(last.token))
    => LET falsy == \/ last.token.sub \in {<<>>, <<"">>}
                    \/ last.token.user_id \in {<<>>, <<0>>}
       IN  /\ InvalidToken <=> falsy
           /\ ~falsy => (Accepted /\ last.user = [email |-> last.token.sub,
                                                  user_id |-> last.token.user_id])

\* a current token whose user_id claim is present but 0 is rejected
C6_Witness ==
    /\ Verified
    /\ Current(last.token)
    /\ last.token.sub = <<"a@x">>
    /\ last.token.user_id = <<0>>
    /\ InvalidToken

\* C7: verify_token ends in exactly one of three outcomes: success with
\* {email, user_id}, ExpiredToken or InvalidToken (both 401); no other
\* outcome, such as a 500 internal error, is reachable.
C7_ThreeOutcomes ==
    Verified =>
        \/ Accepted /\ last.user # NoUser
        \/ ExpiredToken
        \/ InvalidToken

----------------------------------------------------------------------------
(* Properties of the resource handlers, checked under SpecData             *)

CulturaOps == {"criar_cultura", "listar_culturas", "obter_cultura", "atualizar_cultura",
               "excluir_cultura"}
ProducaoOps == {"criar_producao", "listar_producoes", "obter_producao", "atualizar_producao",
                "excluir_producao"}
EstoqueOps == {"criar_item", "listar_estoque", "atualizar_item", "deletar_item"}
ResourceOps == CulturaOps \cup ProducaoOps \cup EstoqueOps \cup {"estatisticas_producao"}
ProtectedOps == ResourceOps \cup {"obter_meus_dados"}

\* the rows of a table that belong to somebody else than uid
OfOthers(table, uid) == {e \in table : e.usuario_id # uid}

\* the table a handler's path id points into
TableOf(op) ==
    IF op \in {"obter_cultura", "atualizar_cultura", "excluir_cultura"} THEN culturas
    ELSE IF op \in {"obter_producao", "atualizar_producao", "excluir_producao"} THEN producoes
    ELSE IF op \in {"atualizar_item", "deletar_item"} THEN estoque
    ELSE {}

\* a request of the verified user uid is answered by last'
OwnerScopedStep ==
    (last = Idle /\ last'.op \in ResourceOps /\ last'.user # NoUser) =>
        LET uid == last'.user.user_id[1] IN
        /\ OfOthers(culturas', uid) = OfOthers(culturas, uid)
        /\ OfOthers(producoes', uid) = OfOthers(producoes, uid)
        /\ OfOthers(estoque', uid) = OfOthers(estoque, uid)
        /\ IF last'.op = "estatisticas_producao"
           THEN \E dados \in SUBSET (producoes \ OfOthers(producoes, uid)) :
                    last'.body = {Estatisticas(dados)}
           ELSE \A e \in last'.body : e.usuario_id = uid
        /\ (\E e \in OfOthers(TableOf(last'.op), uid) : e.id = last'.id)
              => last'.status = 404 /\ UNCHANGED dataVars

\* C8: a request whose verified identity is not the owner of a culture,
\* production record or stock item neither returns that row, nor anything
\* derived from it (list results, statistics), nor changes nor deletes it;
\* addressed by its id, the row is answered with 404 and the datastore
\* stays as it was.
C8_OwnerScoped == [][OwnerScopedStep]_vars

\* a production of one user has been addressed by the other: 404
C8_Witness ==
    /\ last.op \in {"obter_producao", "atualizar_producao", "excluir_producao"}
    /\ last.user # NoUser
    /\ last.status = 404
    /\ \E p \in producoes : p.id = last.id /\ <<p.usuario_id>> # last.user.user_id

\* C9: when verify_token fails for the bearer token of a protected request,
\* the response is 401 and no culture, production, stock or user row is
\* read, created, changed or deleted.
C9_RejectedIsUnauthorized ==
    [][(/\ last = Idle
        /\ last'.op \in ProtectedOps
        /\ verify_token(last'.token, BLACKLIST, clock).status # 200)
       => (/\ last'.status = 401
           /\ last'.read = {} /\ last'.body = {}
           /\ UNCHANGED <<userVars, dataVars>>)]_vars

----------------------------------------------------------------------------
(* Properties of registration and login, checked under SpecLogin           *)

LoggedIn == last.op = "login" /\ last.status = 200

Seen(r) == <<r.status, r.detail, r.body>>

\* C11: a login whose password does not hash to the stored digest and a
\* login with an e-mail no user has fail with the same response, 401
\* 'Credenciais incorretas': no token is issued and neither the user table
\* nor the revocation set changes.
C11_FailedLoginsAlike ==
    [][\A username \in Emails, password \in Senhas :
          (/\ login(username, password)
           /\ \A i \in UsuarioIds :
                usuarios[i].email = username => usuarios[i].senha # gerar_hash(password))
          => /\ Seen(last') = <<401, "Credenciais incorretas", {}>>
             /\ UNCHANGED <<usuarios, registered, BLACKLIST>>]_vars

\* a registered user's login with another password than the registered one
\* has been turned down
C11_Witness ==
    /\ last.op = "login"
    /\ last.status = 401
    /\ \E i \in UsuarioIds : UsuarioRow(i) \in last.read
    /\ BLACKLIST # {}

----------------------------------------------------------------------------
(* Properties of the revocation set, checked under SpecAuth                *)

LogoutSucceeded(r) ==
    r.op = "logout" /\ r.status = 200 /\ r.detail = "Logout realizado com sucesso."

\* C12: revocation is idempotent: a logout of a token whose logout has
\* completed before leaves the revocation set as it was after the first
\* one, and it answers success as well.
C12_LogoutIdempotent ==
    [][\A token \in LogoutTokens :
          (logout(token) /\ token \in loggedOut)
          => /\ BLACKLIST' = BLACKLIST
             /\ token \in BLACKLIST'
             /\ LogoutSucceeded(last')]_vars

\* a logout has been answered for a token that was in the set already,
\* with other tokens revoked besides
C12_Witness ==
    /\ LogoutSucceeded(last)
    /\ last.token \in last.read
    /\ BLACKLIST \ {last.token} # {}

\* C13: the revocation set changes only through logout, and a logout adds
\* exactly the presented token string; login, verify_token and the passing
\* of time leave the set as it is and nothing removes an entry, so the set
\* only grows, also past the expiry of the tokens in it.
C13_OnlyLogoutAdds ==
    [][/\ BLACKLIST \subseteq BLACKLIST'
       /\ \A token \in LoginTokens : logout(token) => BLACKLIST' = BLACKLIST \cup {token}
       /\ (\A token \in LoginTokens : ~logout(token)) => BLACKLIST' = BLACKLIST]_vars

\* a protected request has been verified while the set holds a token whose
\* expiry has passed
C13_Witness ==
    /\ last.op = "obter_meus_dados"
    /\ last.status = 200
    /\ \E t \in BLACKLIST : clock > ExpiryTick(t)

----------------------------------------------------------------------------
(* Properties of parallel requests, checked under SpecThreads              *)

\* C14: with logout and verify requests running in parallel on the shared
\* revocation set, a verify_token(token) that begins after a logout(token)
\* has returned fails with InvalidToken, whatever the interleaving.
C14_LogoutVisibleToLaterVerify ==
    \A th \in Threads :
        (threads[th].op = "verify_token" /\ threads[th].pc = "done" /\ threads[th].after)
        => IsInvalidToken(threads[th].result)

\* a verify that began after the logout of its token, which has not
\* expired, has finished while another thread is inside a logout
C14_Witness ==
    \E th \in Threads, other \in Threads :
        /\ threads[th].op = "verify_token" /\ threads[th].pc = "done" /\ threads[th].after
        /\ clock < ExpiryTick(threads[th].token)
        /\ threads[other].op = "logout" /\ threads[other].pc \in {"add", "return"}

----------------------------------------------------------------------------
(* Properties of cultures and productions, checked under SpecCulturas      *)

normalizado(nome) == lower(strip(nome))

HasProductions(id) == \E p \in producoes : p.cultura_id = id
Caller(token) == verify_token(token, BLACKLIST, clock).user.user_id

\* C16, as stated: excluir_cultura on a culture that has at least one
\* production record fails with 400 and deletes neither the culture nor any
\* production record.
C16_InUseIs400 ==
    [][\A token \in GoodTokens, id \in CulturaIds :
          (excluir_cultura(token, id) /\ (\E c \in culturas : c.id = id) /\ HasProductions(id))
          => (last'.status = 400 /\ UNCHANGED dataVars)]_vars

\* C16, amended: excluir_cultura on a culture with at least one production
\* record deletes nothing and fails, with 400 when the caller owns the
\* culture and with 404 when another user does; a culture is deleted only
\* when the caller owns it and it has no production records, and then no
\* production record goes with it.
C16_InUseIsKept ==
    [][\A token \in GoodTokens, id \in CulturaIds :
          excluir_cultura(token, id)
          => /\ \A c \in culturas :
                  (c.id = id /\ HasProductions(id))
                  => /\ last'.status = IF <<c.usuario_id>> = Caller(token) THEN 400 ELSE 404
                     /\ UNCHANGED dataVars
             /\ producoes' = producoes
             /\ \A c \in culturas \ culturas' :
                  c.id = id /\ <<c.usuario_id>> = Caller(token) /\ ~HasProductions(id)
             /\ culturas' \subseteq culturas]_vars

\* the owner's delete of a culture with a production has been answered 400
\* and both rows are still there
C16_Witness ==
    /\ last.op = "excluir_cultura"
    /\ last.status = 400
    /\ \E c \in culturas : c.id = last.id /\ <<c.usuario_id>> = last.user.user_id
    /\ HasProductions(last.id)

\* C17: every stored production record has quantidade > 0 and a
\* data_colheita no later than the date of the request that wrote it.
C17_StoredProductionsValid ==
    \A p \in producoes : p.quantidade > 0 /\ p.data_colheita <= date_today(clock)

----------------------------------------------------------------------------
(* Properties of token issuance, checked under SpecIssue                   *)

\* the exp claim jwt.encode writes for an expiry instant given in ticks
ExpOf(expire) == expire \div TicksPerSecond

\* C18: create_access_token sets the exp claim to now + expires_delta
\* whenever an expires_delta is supplied, a zero-length one included, and to
\* now + the configured ACCESS_TOKEN_EXPIRE_MINUTES only when none is
\* supplied.
C18_ExpIsNowPlusDelta ==
    [][/\ \A email \in Emails, id \in UserIds, expires_delta \in Deltas :
             IssueTokenExpiring(email, id, expires_delta)
             => last'.token.exp = ExpOf(clock + expires_delta)
       /\ \A email \in Emails, id \in UserIds :
             IssueToken(email, id)
             => last'.token.exp = ExpOf(clock + ACCESS_TOKEN_EXPIRE * TicksPerSecond)]_vars

\* C19: every production record refers to an existing culture that belongs
\* to the user the record belongs to.
C19_ProductionsHaveOwnCulture ==
    \A p \in producoes :
        \E c \in culturas : c.id = p.cultura_id /\ c.usuario_id = p.usuario_id

\* a production has been moved to another culture of its owner while the
\* other user has a culture as well
C19_Witness ==
    /\ last.op = "atualizar_producao"
    /\ last.status = 200
    /\ \E new \in last.body, c \in last.read :
         /\ new \in producoes
         /\ c \in culturas
         /\ c.id = new.cultura_id
    /\ \E c \in culturas : <<c.usuario_id>> # last.user.user_id

----------------------------------------------------------------------------
(* Properties of sessions, checked under SpecSessions                      *)

\* C20: the tokens of different logins are independent sessions: the logout
\* of one login's token does not make verify_token reject the token of
\* another login before that token's own expiry or logout.  Stated for the
\* moment a login returns: the session it has just opened, not expired and
\* never logged out, is accepted.
C20_NewSessionIsAccepted ==
    [][\A i \in UsuarioIds :
          (login(usuarios[i].email, registered[i]) /\ LoggedIn')
          => \A b \in last'.body :
                verify_token(b.access_token, BLACKLIST', clock').status = 200]_vars

----------------------------------------------------------------------------
(* logout of any bearer string, checked under SpecAuth                     *)

\* C21: logout does not verify the token it is given: for any bearer
\* string, be it expired, tampered with, revoked already or never issued,
\* it answers success and the string is in the revocation set afterwards.
C21_LogoutTakesAnyString ==
    [][\A token \in LogoutTokens :
          logout(token) => (LogoutSucceeded(last') /\ token \in BLACKLIST')]_vars

\* a logout has succeeded for a token that had expired and was revoked
\* already, with a forged token and a string that is no JWT in the set
C21_Witness ==
    /\ LogoutSucceeded(last)
    /\ last.token.sig = "valid"
    /\ clock > ExpiryTick(last.token)
    /\ last.token \in last.read
    /\ Garbage \in BLACKLIST
    /\ \E t \in BLACKLIST : t.sig = "forged"

====
